---- MODULE Spec2Model ----
(***************************************************************************)
(* A model of the financial report parser: paragraph reconstruction and    *)
(* table detection (extractor.py), heading classification, section titles  *)
(* and word-window chunking (parser.py), the keyword index and retrieval    *)
(* (query.py) and the retrying HTTP post (llm_client.py).                  *)
(*                                                                         *)
(* A Python str is a sequence of one-character strings; None is the        *)
(* one-element sequence NoneText, whose element is no character.           *)
(***************************************************************************)
EXTENDS Integers, Sequences, FiniteSets, TLC

VARIABLES
    pc,                 \* position of the running call
    paragraph,          \* _split_into_chunks: argument
    chunk_size_words,   \* _split_into_chunks: argument
    overlap_words,      \* _split_into_chunks: argument
    chunks,             \* _split_into_chunks: returned list
    elements,           \* group_paragraphs, detect_tables: argument
    line_break_distance,\* group_paragraphs: cfg.line_break_distance
    grouped,            \* group_paragraphs: returned list
    tables,             \* detect_tables: returned list
    pages,              \* parse_financial_report: the pages of get_pdf_pages
    llm_client,         \* parse_financial_report: whether a client is supplied
    page_tables,        \* page.tables of every page
    metadata_year,      \* data["metadata"]: <<year>>, or <<>> without a year
    page_pos,           \* 0-based position of the page loop
    paragraphs,         \* paragraphs of the current page
    paragraph_index,    \* position of the paragraph loop
    current_section,    \* tracked section title, NoneText when None
    next_chunk_index,   \* the chunk counter
    page_chunks,        \* chunks of the current page
    page_text_chunks,   \* page.text_chunks of every finished page
    text_chunks,        \* chunks of the document
    llm_index,          \* position of the language-model loop
    llm_responses,      \* page.llm_responses of every page
    sections,           \* data["sections"]
    data,               \* <<the returned mapping>>, <<>> before the return
    heading_paragraph,  \* _looks_like_heading: argument
    heading_result,     \* _looks_like_heading: returned value
    engine_chunks,      \* TextQueryEngine.chunks (the chunk texts)
    _token_sets,        \* TextQueryEngine._token_sets
    _idf,               \* TextQueryEngine._idf, in millionths
    question,           \* retrieve: argument of the last call
    top_k,              \* retrieve: argument of the last call
    matches,            \* retrieve: returned list of the last call
    history,            \* the retrieve calls made so far, with their results
    max_retries_arg,    \* LLMClient(max_retries=...): the argument
    max_retries,        \* LLMClient.max_retries
    backoff_factor,     \* LLMClient.backoff_factor
    attempt,            \* _post: loop variable
    outcomes,           \* _post: outcome of every session.post so far
    sleeps,             \* _post: delay of every time.sleep so far
    post_result         \* _post: <<what the call returned or raised>>

chunkVars == <<paragraph, chunk_size_words, overlap_words, chunks>>

groupVars == <<elements, line_break_distance, grouped, tables>>

docVars ==
    <<pages, llm_client, page_tables, metadata_year, page_pos, paragraphs,
      paragraph_index, current_section, next_chunk_index, page_chunks,
      page_text_chunks, text_chunks, llm_index, llm_responses, sections, data>>

headingVars == <<heading_paragraph, heading_result>>

queryVars == <<engine_chunks, _token_sets, _idf, question, top_k, matches, history>>

postVars == <<max_retries_arg, max_retries, backoff_factor, attempt, outcomes, sleeps, post_result>>

vars == <<pc, chunkVars, groupVars, docVars, headingVars, queryVars, postVars>>

----------------------------------------------------------------------------
(* Characters and strings *)

Max(a, b) == IF a >= b THEN a ELSE b

Min(a, b) == IF a <= b THEN a ELSE b

NoneText == <<"None">>

UpperChars == {"A", "B", "C", "D", "E", "F", "G", "H", "I", "J", "K", "L", "M",
               "N", "O", "P", "Q", "R", "S", "T", "U", "V", "W", "X", "Y", "Z"}

LowerChars == {"a", "b", "c", "d", "e", "f", "g", "h", "i", "j", "k", "l", "m",
               "n", "o", "p", "q", "r", "s", "t", "u", "v", "w", "x", "y", "z"}

DigitChars == {"0", "1", "2", "3", "4", "5", "6", "7", "8", "9"}

SpaceChars == {" ", "\t", "\n"}

\* str.isspace of one character
IsSpace(ch) == ch \in SpaceChars

\* str.isdigit of one character
IsDigit(ch) == ch \in DigitChars

\* str.isalpha of one character
IsAlpha(ch) == ch \in UpperChars \cup LowerChars

\* str.isupper of one character
IsUpper(ch) == ch \in UpperChars

\* the positions of text, in order
Indices(text) == [i \in 1..Len(text) |-> i]

\* str.split(): the maximal runs of non-whitespace characters, in order
Split(text) ==
    LET starts == SelectSeq(Indices(text), LAMBDA i :
                      ~IsSpace(text[i]) /\ (i = 1 \/ IsSpace(text[i - 1])))
        ends == SelectSeq(Indices(text), LAMBDA i :
                      ~IsSpace(text[i]) /\ (i = Len(text) \/ IsSpace(text[i + 1])))
    IN  [k \in 1..Len(starts) |-> SubSeq(text, starts[k], ends[k])]

RECURSIVE Join(_, _)
\* sep.join(parts), joined by halves
Join(parts, sep) ==
    IF parts = <<>> THEN <<>>
    ELSE IF Len(parts) = 1 THEN parts[1]
    ELSE LET half == Len(parts) \div 2
         IN  Join(SubSeq(parts, 1, half), sep) \o sep
             \o Join(SubSeq(parts, half + 1, Len(parts)), sep)

\* " ".join(parts)
JoinSpace(parts) == Join(parts, <<" ">>)

----------------------------------------------------------------------------
(* parser.py: _split_into_chunks *)

CHUNK_SIZE_WORDS == 120

CHUNK_OVERLAP_WORDS == 30

UnclampedSize(csw) == csw

\* size = max(1, chunk_size_words)
ChunkSize(csw) == Max(1, csw)

\* overlap = max(0, min(overlap_words, size - 1))
ChunkOverlap(ow, size) == Max(0, Min(ow, size - 1))

StepIgnoringOverlap(size, overlap) == Max(1, size)

\* step = max(1, size - overlap)
ChunkStep(size, overlap) == Max(1, size - overlap)

\* end = min(total, start + size)
WindowEnd(total, start, size) == Min(total, start + size)

NeverLastWindow(end, total) == FALSE

\* if end >= total: break
LastWindow(end, total) == end >= total

RECURSIVE ChunkLoop(_, _, _, _, _)
\* the while loop: start is the 0-based window start, acc the chunks so far
ChunkLoop(words, size, step, start, acc) ==
    LET total == Len(words)
        end == WindowEnd(total, start, size)
        chunk_words == SubSeq(words, start + 1, end)
    IN  IF ~(start < total) THEN acc
        ELSE IF chunk_words = <<>> THEN acc
        ELSE IF LastWindow(end, total) THEN Append(acc, JoinSpace(chunk_words))
        ELSE ChunkLoop(words, size, step, start + step, Append(acc, JoinSpace(chunk_words)))

_split_into_chunks(text, csw, ow) ==
    LET words == Split(text)
        size == ChunkSize(csw)
        overlap == ChunkOverlap(ow, size)
        step == ChunkStep(size, overlap)
    IN  IF words = <<>> THEN <<>>
        ELSE ChunkLoop(words, size, step, 0, <<>>)

----------------------------------------------------------------------------
(* parser.py: whitespace, headings, section titles *)

RECURSIVE LStrip(_)
LStrip(text) ==
    IF text # <<>> /\ IsSpace(Head(text)) THEN LStrip(Tail(text)) ELSE text

RECURSIVE RStrip(_)
RStrip(text) ==
    IF text # <<>> /\ IsSpace(text[Len(text)])
    THEN RStrip(SubSeq(text, 1, Len(text) - 1))
    ELSE text

\* str.strip()
Strip(text) == LStrip(RStrip(text))

\* re.sub(r"\s+", " ", text): every run of whitespace becomes one space
CollapseSpaces(text) ==
    LET kept == SelectSeq(Indices(text), LAMBDA i :
                    ~IsSpace(text[i]) \/ i = 1 \/ ~IsSpace(text[i - 1]))
    IN  [k \in 1..Len(kept) |-> IF IsSpace(text[kept[k]]) THEN " " ELSE text[kept[k]]]

_normalise_whitespace(text) == CollapseSpaces(Strip(text))

_HEADING_MAX_WORDS == 12

\* str.isdigit(): non-empty and all digits
AllDigits(word) == word # <<>> /\ \A i \in 1..Len(word) : IsDigit(word[i])

\* str.endswith(ch)
EndsWith(text, ch) == text # <<>> /\ text[Len(text)] = ch

\* alpha_chars = [ch for ch in text if ch.isalpha()]
CountAlpha(text) == Cardinality({i \in 1..Len(text) : IsAlpha(text[i])})

\* sum(1 for ch in alpha_chars if ch.isupper())
CountUpper(text) == Cardinality({i \in 1..Len(text) : IsUpper(text[i])})

\* a ratio test that leaves out 0.6 itself
RatioAboveSixTenths(upper, alpha) == 10 * upper > 6 * alpha

\* uppercase_ratio >= 0.6, for upper / alpha with alpha > 0
RatioAtLeastSixTenths(upper, alpha) == 10 * upper >= 6 * alpha

\* word[:1].isupper()
StartsUpper(word) == word # <<>> /\ IsUpper(word[1])

_looks_like_heading(para) ==
    LET text == _normalise_whitespace(para)
        words == Split(text)
        alpha == CountAlpha(text)
        upper == CountUpper(text)
        title_words == Cardinality({i \in 1..Len(words) : StartsUpper(words[i])})
    IN  IF text = <<>> THEN FALSE
        ELSE IF Len(words) = 1 /\ AllDigits(words[1]) THEN TRUE
        ELSE IF Len(words) > _HEADING_MAX_WORDS THEN FALSE
        ELSE IF EndsWith(text, ".") THEN FALSE
        ELSE IF EndsWith(text, ":") THEN TRUE
        ELSE IF alpha > 0 /\ RatioAtLeastSixTenths(upper, alpha) THEN TRUE
        ELSE title_words = Len(words)

RECURSIVE ToDecimal(_)
\* str(n) for n >= 0
ToDecimal(n) ==
    LET digit == <<"0", "1", "2", "3", "4", "5", "6", "7", "8", "9">>[(n % 10) + 1]
    IN  IF n < 10 THEN <<digit>> ELSE Append(ToDecimal(n \div 10), digit)

\* f"Page {page_index + 1}"
_default_section_title(page_index) == <<"P", "a", "g", "e", " ">> \o ToDecimal(page_index + 1)

\* re.split(r"(?<=[.!?])\s+", text)[0]: the text before the first whitespace
\* run that follows a '.', '!' or '?'
FirstSentence(text) ==
    LET cuts == {i \in 2..Len(text) : IsSpace(text[i]) /\ text[i - 1] \in {".", "!", "?"}}
    IN  IF cuts = {} THEN text
        ELSE SubSeq(text, 1, (CHOOSE i \in cuts : \A j \in cuts : i <= j) - 1)

TitleSnippetWords == 8

\* truthiness of an Optional[str]
Truthy(text) == text # NoneText /\ text # <<>>

_derive_section_title(para, page_index, section) ==
    LET text == _normalise_whitespace(para)
        words == Split(FirstSentence(text))
        snippet == JoinSpace(SubSeq(words, 1, Min(TitleSnippetWords, Len(words))))
    IN  IF Truthy(section) THEN section
        ELSE IF text = <<>> THEN _default_section_title(page_index)
        ELSE IF words = <<>> THEN _default_section_title(page_index)
        ELSE IF snippet # <<>> THEN snippet
        ELSE _default_section_title(page_index)

----------------------------------------------------------------------------
(* Inputs of the chunker *)

MaxWords == 6

MaxSizeArg == 4

\* chunk_size_words and overlap_words: negative, zero and positive arguments
SizeArgs == (0 - 1)..MaxSizeArg

Letters == <<"a", "b", "c", "d", "e", "f", "g", "h", "i", "j">>

\* word lists: n pairwise distinct words, n equal words, and a list with a
\* two-character word
WordLists ==
    {[i \in 1..n |-> <<Letters[i]>>] : n \in 0..MaxWords}
    \cup {[i \in 1..n |-> <<"a">>] : n \in 2..3}
    \cup {<<<<"a", "b">>, <<"c">>, <<"d", "e">>>>}

\* the paragraph strings of a word list: single spaces, and irregular whitespace
Renderings(ws) ==
    {JoinSpace(ws), <<" ">> \o Join(ws, <<" ", "\n">>) \o <<"\t">>}

ParagraphInputs == UNION {Renderings(ws) : ws \in WordLists}

DocIdle ==
    /\ pages = <<>>
    /\ llm_client = FALSE
    /\ page_tables = <<>>
    /\ metadata_year = <<>>
    /\ page_pos = 0
    /\ paragraphs = <<>>
    /\ paragraph_index = 0
    /\ current_section = NoneText
    /\ next_chunk_index = 0
    /\ page_chunks = <<>>
    /\ page_text_chunks = <<>>
    /\ text_chunks = <<>>
    /\ llm_index = 0
    /\ llm_responses = <<>>
    /\ sections = <<>>
    /\ data = <<>>

ChunkIdle ==
    /\ paragraph = <<>>
    /\ chunk_size_words = 0
    /\ overlap_words = 0
    /\ chunks = <<>>

GroupIdle ==
    /\ elements = <<>>
    /\ line_break_distance = 0
    /\ grouped = <<>>
    /\ tables = <<>>

HeadingIdle ==
    /\ heading_paragraph = <<>>
    /\ heading_result = FALSE

QueryIdle ==
    /\ engine_chunks = <<>>
    /\ _token_sets = <<>>
    /\ _idf = <<>>
    /\ question = <<>>
    /\ top_k = 0
    /\ matches = <<>>
    /\ history = <<>>

PostIdle ==
    /\ max_retries_arg = 0
    /\ max_retries = 0
    /\ backoff_factor = 0
    /\ attempt = 0
    /\ outcomes = <<>>
    /\ sleeps = <<>>
    /\ post_result = <<>>

InitChunk ==
    /\ pc = "call"
    /\ GroupIdle
    /\ DocIdle
    /\ HeadingIdle
    /\ QueryIdle
    /\ PostIdle
    /\ paragraph \in ParagraphInputs
    /\ chunk_size_words \in SizeArgs
    /\ overlap_words \in SizeArgs
    /\ chunks = <<>>

\* one call of _split_into_chunks
SplitCall ==
    /\ pc = "call"
    /\ chunks' = _split_into_chunks(paragraph, chunk_size_words, overlap_words)
    /\ pc' = "done"
    /\ UNCHANGED <<paragraph, chunk_size_words, overlap_words>>
    /\ UNCHANGED <<groupVars, docVars, headingVars, queryVars, postVars>>

NextChunk == SplitCall

SpecChunk == InitChunk /\ [][NextChunk]_vars

----------------------------------------------------------------------------
(* extractor.py: group_paragraphs *)

\* datamodel.py: ParsedElement.is_empty
is_empty(e) == e.text = NoneText \/ e.text = <<>> \/ Split(e.text) = <<>>

\* `if e.text`: the text is neither None nor the empty string
HasText(e) == e.text # NoneText /\ e.text # <<>>

\* [e for e in elements if e.text]
TextElements(els) == SelectSeq(els, HasText)

RECURSIVE InsertByY0(_, _)
\* e goes behind every element whose y0 is not smaller (sorted is stable)
InsertByY0(sorted, e) ==
    IF sorted = <<>> THEN <<e>>
    ELSE IF Head(sorted).y0 >= e.y0 THEN <<Head(sorted)>> \o InsertByY0(Tail(sorted), e)
    ELSE <<e>> \o sorted

RECURSIVE SortByY0Desc(_)
\* sorted(..., key=lambda e: -e.y0)
SortByY0Desc(els) ==
    IF els = <<>> THEN <<>>
    ELSE InsertByY0(SortByY0Desc(SubSeq(els, 1, Len(els) - 1)), els[Len(els)])

Abs(x) == IF x < 0 THEN 0 - x ELSE x

GapAtLeast(last_y, y0, distance) == Abs(last_y - y0) >= distance

\* abs(last_y - el.y0) > cfg.line_break_distance
GapExceeds(last_y, y0, distance) == Abs(last_y - y0) > distance

\* " ".join(e.text for e in current)
JoinTexts(current) == JoinSpace([k \in 1..Len(current) |-> current[k].text])

RECURSIVE GroupLoop(_, _, _, _, _)
\* the for loop over lines[i..], then the final flush; last_y is None exactly
\* when i = 1
GroupLoop(lines, i, current, acc, distance) ==
    IF i > Len(lines)
    THEN (IF current # <<>> THEN Append(acc, JoinTexts(current)) ELSE acc)
    ELSE IF i > 1 /\ GapExceeds(lines[i - 1].y0, lines[i].y0, distance)
         THEN GroupLoop(lines, i + 1, <<lines[i]>>, Append(acc, JoinTexts(current)), distance)
         ELSE GroupLoop(lines, i + 1, Append(current, lines[i]), acc, distance)

group_paragraphs(els, distance) ==
    GroupLoop(SortByY0Desc(TextElements(els)), 1, <<>>, <<>>, distance)

----------------------------------------------------------------------------
(* Inputs of group_paragraphs *)

MaxElems == 3

Y0Values == {0, 1, 3}

LineBreakValues == {1, 2}

\* None, "", whitespace only, and two distinct words
GroupTexts == {NoneText, <<>>, <<" ">>, <<"a">>, <<"b">>}

GroupElements == [y0 : Y0Values, text : GroupTexts]

InitGroup ==
    /\ pc = "call"
    /\ ChunkIdle
    /\ DocIdle
    /\ HeadingIdle
    /\ QueryIdle
    /\ PostIdle
    /\ elements \in UNION {[1..n -> GroupElements] : n \in 0..MaxElems}
    /\ line_break_distance \in LineBreakValues
    /\ grouped = <<>>
    /\ tables = <<>>

\* one call of group_paragraphs
GroupCall ==
    /\ pc = "call"
    /\ grouped' = group_paragraphs(elements, line_break_distance)
    /\ pc' = "done"
    /\ UNCHANGED <<elements, line_break_distance, tables>>
    /\ UNCHANGED <<chunkVars, docVars, headingVars, queryVars, postVars>>

NextGroup == GroupCall

SpecGroup == InitGroup /\ [][NextGroup]_vars

----------------------------------------------------------------------------
(* extractor.py: detect_tables *)

\* re.search(r"\d", text)
ContainsDigit(text) == \E i \in 1..Len(text) : IsDigit(text[i])

\* re.search(r"\d{3}[\.,]\d{3}", text)
MatchesThousands(text) ==
    \E i \in 1..(Len(text) - 6) :
        /\ \A k \in 0..2 : IsDigit(text[i + k])
        /\ text[i + 3] \in {".", ","}
        /\ \A k \in 4..6 : IsDigit(text[i + k])

\* needle in hay, for two strings
IsSubstring(needle, hay) ==
    \E i \in 0..(Len(hay) - Len(needle)) : SubSeq(hay, i + 1, i + Len(needle)) = needle

\* text_lines = [e.text for e in elements if e.text and re.search(r"\d", e.text)]
TextLines(els) ==
    LET digitLines == SelectSeq(els, LAMBDA e : HasText(e) /\ ContainsDigit(e.text))
    IN  [k \in 1..Len(digitLines) |-> digitLines[k].text]

\* `text in e.text` raises TypeError when e.text is None
ContainmentRaises(els) == \E i \in 1..Len(els) : els[i].text = NoneText

\* [e for e in elements if text in e.text][0].y0
FirstContainingY0(els, text) ==
    els[CHOOSE i \in 1..Len(els) :
            /\ IsSubstring(text, els[i].text)
            /\ \A j \in 1..(i - 1) : ~IsSubstring(text, els[j].text)].y0

\* ParsedTable(x0=0, y0=y, x1=1000, y1=y+15, rows=[[text]])
TableAt(y, text) == [x0 |-> 0, y0 |-> y, x1 |-> 1000, y1 |-> y + 15, rows |-> <<<<text>>>>]

\* the rows of the loop: the lines that match the grouped-thousands pattern
TableRows(els) == SelectSeq(TextLines(els), MatchesThousands)

\* the call raises at the first matching line when some element's text is
\* None; otherwise it returns one table per matching line
detect_tables(els) ==
    LET matched == TableRows(els)
    IN  IF matched # <<>> /\ ContainmentRaises(els)
        THEN [raised |-> TRUE, tables |-> <<>>]
        ELSE [raised |-> FALSE,
              tables |-> [k \in 1..Len(matched) |->
                            TableAt(FirstContainingY0(els, matched[k]), matched[k])]]

----------------------------------------------------------------------------
(* Inputs of detect_tables *)

TableY0Values == {0, 20, 40}

\* None, "", no digit, a digit but no pattern, the two patterns, and a line
\* that contains another line
TableTexts ==
    {NoneText, <<>>, <<"a", "b">>, <<"1", "2">>,
     <<"1", "2", "3", ".", "4", "5", "6">>,
     <<"1", "2", "3", ",", "4", "5", "6">>,
     <<"x", " ", "1", "2", "3", ".", "4", "5", "6">>}

TableElements == [y0 : TableY0Values, text : TableTexts]

InitTables ==
    /\ pc = "call"
    /\ ChunkIdle
    /\ DocIdle
    /\ HeadingIdle
    /\ QueryIdle
    /\ PostIdle
    /\ elements \in UNION {[1..n -> TableElements] : n \in 0..MaxElems}
    /\ line_break_distance = 0
    /\ grouped = <<>>
    /\ tables = <<>>

\* one call of detect_tables: it returns the tables or raises
TablesCall ==
    /\ pc = "call"
    /\ LET result == detect_tables(elements)
       IN  /\ tables' = result.tables
           /\ pc' = IF result.raised THEN "raised" ELSE "done"
    /\ UNCHANGED <<elements, line_break_distance, grouped>>
    /\ UNCHANGED <<chunkVars, docVars, headingVars, queryVars, postVars>>

NextTables == TablesCall

SpecTables == InitTables /\ [][NextTables]_vars

----------------------------------------------------------------------------
(* parser.py: figure identifiers, the year, the summary sections *)

UpperSeq == <<"A", "B", "C", "D", "E", "F", "G", "H", "I", "J", "K", "L", "M",
              "N", "O", "P", "Q", "R", "S", "T", "U", "V", "W", "X", "Y", "Z">>

LowerSeq == <<"a", "b", "c", "d", "e", "f", "g", "h", "i", "j", "k", "l", "m",
              "n", "o", "p", "q", "r", "s", "t", "u", "v", "w", "x", "y", "z">>

LowerChar(ch) ==
    IF ch \in UpperChars THEN LowerSeq[CHOOSE k \in 1..26 : UpperSeq[k] = ch] ELSE ch

\* str.lower()
ToLower(text) == [i \in 1..Len(text) |-> LowerChar(text[i])]

\* \w of one character
IsWord(ch) == IsAlpha(ch) \/ IsDigit(ch) \/ ch = "_"

\* \b in front of the word character at position i
BoundaryBefore(text, i) == i = 1 \/ ~IsWord(text[i - 1])

\* word occurs in text at position i
OccursAt(text, i, word) ==
    i + Len(word) - 1 <= Len(text) /\ SubSeq(text, i, i + Len(word) - 1) = word

RECURSIVE RunEnd(_, _, _)
\* the first position at or after i whose character is not in chars
RunEnd(text, i, chars) ==
    IF i <= Len(text) /\ text[i] \in chars THEN RunEnd(text, i + 1, chars) ELSE i

\* a match of \b(?:figure|fig\.)\s*(\d+[A-Za-z\-]*) that starts at i, ignoring
\* case: <<the label, the position behind the match>>, or <<>>
FigureMatchAt(text, i) ==
    LET lower == ToLower(text)
        keyEnd == IF OccursAt(lower, i, <<"f", "i", "g", "u", "r", "e">>) THEN i + 6
                  ELSE IF OccursAt(lower, i, <<"f", "i", "g", ".">>) THEN i + 4
                  ELSE 0
        digitsFrom == RunEnd(text, keyEnd, SpaceChars)
        digitsEnd == RunEnd(text, digitsFrom, DigitChars)
        labelEnd == RunEnd(text, digitsEnd, UpperChars \cup LowerChars \cup {"-"})
    IN  IF keyEnd = 0 \/ ~BoundaryBefore(text, i) THEN <<>>
        ELSE IF digitsEnd = digitsFrom THEN <<>>
        ELSE <<SubSeq(text, digitsFrom, labelEnd - 1), labelEnd>>

RECURSIVE FigureScan(_, _, _, _)
\* re.findall: the matches left to right, a match starting no earlier than
\* the end of the one before; the labels formatted and deduplicated in order
FigureScan(text, starts, from, acc) ==
    IF starts = <<>> THEN acc
    ELSE LET found == FigureMatchAt(text, Head(starts))
             formatted == <<"F", "i", "g", "u", "r", "e", " ">> \o found[1]
         IN  IF Head(starts) < from THEN FigureScan(text, Tail(starts), from, acc)
             ELSE FigureScan(text, Tail(starts), found[2],
                     IF \E k \in 1..Len(acc) : acc[k] = formatted
                     THEN acc ELSE Append(acc, formatted))

_extract_figure_identifiers(para) ==
    FigureScan(para, SelectSeq(Indices(para), LAMBDA i : FigureMatchAt(para, i) # <<>>), 1, <<>>)

DigitValue(ch) == CHOOSE v \in 0..9 : ToDecimal(v) = <<ch>>

\* re.search(r"(\b\d{4}\b)", text): <<int(match)>> of the leftmost match, or <<>>
FindYear(text) ==
    LET hits == {i \in 1..(Len(text) - 3) :
                    /\ \A k \in 0..3 : IsDigit(text[i + k])
                    /\ BoundaryBefore(text, i)
                    /\ i + 4 > Len(text) \/ ~IsWord(text[i + 4])}
        first == CHOOSE i \in hits : \A j \in hits : i <= j
    IN  IF hits = {} THEN <<>>
        ELSE <<1000 * DigitValue(text[first]) + 100 * DigitValue(text[first + 1])
               + 10 * DigitValue(text[first + 2]) + DigitValue(text[first + 3])>>

\* ParsedPage.all_text
all_text(page) ==
    LET withText == TextElements(page.elements)
    IN  JoinSpace([k \in 1..Len(withText) |-> withText[k].text])

SummaryKeywords ==
    {<<"a", "s", "s", "e", "t", "s">>,
     <<"l", "i", "a", "b", "i", "l", "i", "t", "i", "e", "s">>,
     <<"e", "q", "u", "i", "t", "y">>,
     <<"p", "r", "o", "f", "i", "t">>,
     <<"i", "n", "c", "o", "m", "e">>,
     <<"c", "a", "p", "i", "t", "a", "l">>}

\* re.search(r"assets|liabilities|equity|profit|income|capital", t.lower())
HasSummaryKeyword(t) == \E word \in SummaryKeywords : IsSubstring(word, ToLower(t))

SummaryTextLimit == 500

FinancialSummary == <<"F", "i", "n", "a", "n", "c", "i", "a", "l", " ",
                      "S", "u", "m", "m", "a", "r", "y">>

\* {"title": "Financial Summary", "text": t[:500]}
SummarySection(t) ==
    [title |-> FinancialSummary, text |-> SubSeq(t, 1, Min(SummaryTextLimit, Len(t)))]

\* the sections that the paragraphs of one page add, in paragraph order
PageSections(paras) ==
    LET hits == SelectSeq(paras, HasSummaryKeyword)
    IN  [k \in 1..Len(hits) |-> SummarySection(hits[k])]

----------------------------------------------------------------------------
(* parser.py: parse_financial_report *)

\* ReaderConfig.line_break_distance
ReaderConfig_line_break_distance == 14

\* a numbering that restarts at 0 in every paragraph
ParagraphLocalIndexAt(next, k) == k - 1

\* chunk k (1-based) of a paragraph takes the counter's value at that point
ChunkIndexAt(next, k) == next + (k - 1)

\* a section title that survives the page break
KeepSection(section) == section

\* current_section: Optional[str] = None, at the start of every page
SectionAtPageStart(section) == NoneText

\* if _looks_like_heading(paragraph_text):
\*     current_section = paragraph_text or current_section
SectionAfter(paragraph_text, section) ==
    IF _looks_like_heading(paragraph_text)
    THEN (IF paragraph_text # <<>> THEN paragraph_text ELSE section)
    ELSE section

\* the TextChunk records of one paragraph
ParagraphChunks(page_index, para_index, paragraph_text, section, next) ==
    LET section_title == _derive_section_title(paragraph_text, page_index, section)
        figure_ids == _extract_figure_identifiers(paragraph_text)
        windows == _split_into_chunks(paragraph_text, CHUNK_SIZE_WORDS, CHUNK_OVERLAP_WORDS)
    IN  [k \in 1..Len(windows) |->
            [page_index |-> page_index,
             chunk_index |-> ChunkIndexAt(next, k),
             text |-> windows[k],
             metadata |-> [paragraph_index |-> para_index,
                           page_number |-> page_index + 1,
                           section_title |-> section_title,
                           figure_identifiers |-> figure_ids]]]

\* lines 124-135: the pages are extracted, the year is searched, the counter
\* starts at 0
Extract ==
    /\ pc = "start"
    /\ LET detected == [k \in 1..Len(pages) |-> detect_tables(pages[k].elements)]
           text == JoinSpace([k \in 1..Len(pages) |-> all_text(pages[k])])
       IN  IF \E k \in 1..Len(pages) : detected[k].raised
           THEN /\ pc' = "raised"
                /\ UNCHANGED <<page_tables, metadata_year>>
           ELSE /\ pc' = "page"
                /\ page_tables' = [k \in 1..Len(pages) |-> detected[k].tables]
                /\ metadata_year' = FindYear(text)
    /\ text_chunks' = <<>>
    /\ next_chunk_index' = 0
    /\ sections' = <<>>
    /\ page_pos' = 0
    /\ UNCHANGED <<pages, llm_client, paragraphs, paragraph_index, current_section,
                   page_chunks, page_text_chunks, llm_index, llm_responses, data>>
    /\ UNCHANGED <<chunkVars, groupVars, headingVars, queryVars, postVars>>

\* lines 136-139: the next page's paragraphs, with no tracked section
StartPage ==
    /\ pc = "page"
    /\ page_pos < Len(pages)
    /\ paragraphs' = group_paragraphs(pages[page_pos + 1].elements,
                                      ReaderConfig_line_break_distance)
    /\ page_chunks' = <<>>
    /\ current_section' = SectionAtPageStart(current_section)
    /\ paragraph_index' = 0
    /\ pc' = "paragraph"
    /\ UNCHANGED <<pages, llm_client, page_tables, metadata_year, page_pos,
                   next_chunk_index, page_text_chunks, text_chunks, llm_index,
                   llm_responses, sections, data>>
    /\ UNCHANGED <<chunkVars, groupVars, headingVars, queryVars, postVars>>

\* lines 140-165: one paragraph: heading test, section title, chunks
ProcessParagraph ==
    /\ pc = "paragraph"
    /\ paragraph_index < Len(paragraphs)
    /\ LET page_index == pages[page_pos + 1].index
           paragraph_text == _normalise_whitespace(paragraphs[paragraph_index + 1])
           section == SectionAfter(paragraph_text, current_section)
           new == ParagraphChunks(page_index, paragraph_index, paragraph_text,
                                  section, next_chunk_index)
       IN  /\ current_section' = section
           /\ page_chunks' = page_chunks \o new
           /\ text_chunks' = text_chunks \o new
           /\ next_chunk_index' = next_chunk_index + Len(new)
    /\ paragraph_index' = paragraph_index + 1
    /\ UNCHANGED <<pc, pages, llm_client, page_tables, metadata_year, page_pos,
                   paragraphs, page_text_chunks, llm_index, llm_responses,
                   sections, data>>
    /\ UNCHANGED <<chunkVars, groupVars, headingVars, queryVars, postVars>>

\* lines 166-168: page.text_chunks = page_chunks; then the language-model
\* loop when a client is supplied
EndParagraphs ==
    /\ pc = "paragraph"
    /\ paragraph_index = Len(paragraphs)
    /\ page_text_chunks' = Append(page_text_chunks, page_chunks)
    /\ llm_responses' = Append(llm_responses, <<>>)
    /\ llm_index' = 0
    /\ pc' = IF llm_client /\ paragraphs # <<>> THEN "llm" ELSE "sections"
    /\ UNCHANGED <<pages, llm_client, page_tables, metadata_year, page_pos, paragraphs,
                   paragraph_index, current_section, next_chunk_index, page_chunks,
                   text_chunks, sections, data>>
    /\ UNCHANGED <<chunkVars, groupVars, headingVars, queryVars, postVars>>

CompletionPayload == [text |-> "completion"]

\* {"error": str(exc)}
ErrorPayload == [error |-> "request failed"]

\* the outcomes of llm_client.complete: it returns a payload or raises
CallOutcomes == {"returns", "raises"}

\* a failure that leaves parse_financial_report
PropagatedFailure(outcome, next_pc) ==
    IF outcome = "raises" THEN "raised" ELSE next_pc

\* lines 169-176: try ... except Exception: the loop goes on after a failure
\* as after a returned payload
PcAfterCall(outcome, next_pc) == next_pc

\* lines 168-184: one call of llm_client.complete; either way one entry is
\* appended
LLMCall ==
    /\ pc = "llm"
    /\ llm_index < Len(paragraphs)
    /\ \E outcome \in CallOutcomes :
          /\ llm_responses' =
                [llm_responses EXCEPT ![page_pos + 1] =
                    Append(@, [page_index |-> pages[page_pos + 1].index,
                               chunk_index |-> llm_index,
                               prompt |-> paragraphs[llm_index + 1],
                               response |-> IF outcome = "raises" THEN ErrorPayload
                                            ELSE CompletionPayload])]
          /\ pc' = PcAfterCall(outcome, IF llm_index + 1 < Len(paragraphs)
                                        THEN "llm" ELSE "sections")
    /\ llm_index' = llm_index + 1
    /\ UNCHANGED <<pages, llm_client, page_tables, metadata_year, page_pos, paragraphs,
                   paragraph_index, current_section, next_chunk_index, page_chunks,
                   page_text_chunks, text_chunks, sections, data>>
    /\ UNCHANGED <<chunkVars, groupVars, headingVars, queryVars, postVars>>

\* lines 185-188: the summary sections of the page; then the next page
PageSummary ==
    /\ pc = "sections"
    /\ sections' = sections \o PageSections(paragraphs)
    /\ page_pos' = page_pos + 1
    /\ pc' = "page"
    /\ UNCHANGED <<pages, llm_client, page_tables, metadata_year, paragraphs,
                   paragraph_index, current_section, next_chunk_index, page_chunks,
                   page_text_chunks, text_chunks, llm_index, llm_responses, data>>
    /\ UNCHANGED <<chunkVars, groupVars, headingVars, queryVars, postVars>>

RECURSIVE Flatten(_)
Flatten(lists) == IF lists = <<>> THEN <<>> ELSE Head(lists) \o Flatten(Tail(lists))

\* TextChunk.to_dict
to_dict(chunk) ==
    [page_index |-> chunk.page_index, chunk_index |-> chunk.chunk_index,
     text |-> chunk.text, metadata |-> chunk.metadata]

\* lines 189-196: the returned mapping; llm_responses only with a client
Return ==
    /\ pc = "page"
    /\ page_pos = Len(pages)
    /\ data' = <<[metadata |-> [year |-> metadata_year,
                                chunk_size_words |-> CHUNK_SIZE_WORDS,
                                overlap_words |-> CHUNK_OVERLAP_WORDS],
                  sections |-> sections,
                  llm_responses |-> IF llm_client THEN <<Flatten(llm_responses)>> ELSE <<>>,
                  text_chunks |-> [k \in 1..Len(text_chunks) |-> to_dict(text_chunks[k])]]>>
    /\ pc' = "done"
    /\ UNCHANGED <<pages, llm_client, page_tables, metadata_year, page_pos, paragraphs,
                   paragraph_index, current_section, next_chunk_index, page_chunks,
                   page_text_chunks, text_chunks, llm_index, llm_responses, sections>>
    /\ UNCHANGED <<chunkVars, groupVars, headingVars, queryVars, postVars>>

----------------------------------------------------------------------------
(* Inputs of parse_financial_report *)

MaxPages == 2

HeadingText ==
    <<"I", "N", "C", "O", "M", "E">>

ColonText ==
    <<"N", "o", "t", "e", "s", " ", "o", "n", " ", "e", "q", "u", "i", "t",
          "y", ":">>

BodyText ==
    <<"N", "e", "t", " ", "p", "r", "o", "f", "i", "t", " ", "r", "o", "s",
          "e", ".", " ", "I", "t", " ", "f", "e", "l", "l", " ", "i", "n", " ",
          "2", "0", "2", "4", ",", " ", "s", "e", "e", " ", "F", "i", "g", ".",
          " ", "2", "a", ".">>

PlainText ==
    <<"t", "o", "t", "a", "l", " ", "a", "s", "s", "e", "t", "s", " ", "1",
          "2", "3", ".", "4", "5", "6", ",", "7", "8">>

TenWordText ==
    <<"o", "n", "e", " ", "t", "w", "o", " ", "t", "h", "r", "e", "e", " ",
          "f", "o", "u", "r", " ", "f", "i", "v", "e", " ", "s", "i", "x", " ",
          "s", "e", "v", "e", "n", " ", "e", "i", "g", "h", "t", " ", "n", "i",
          "n", "e", " ", "t", "e", "n">>

NumberText ==
    <<"7">>

BlankText ==
    <<" ", "\n">>

\* more words than one window holds: two chunks
LongText == JoinSpace([k \in 1..(CHUNK_SIZE_WORDS + 1) |-> <<"w">>])

Element(y0, text) == [y0 |-> y0, text |-> text]

\* element lists as the layout engine produces them: every text is a string
PageElementLists ==
    {<<>>,
     <<Element(700, HeadingText), Element(650, BodyText), Element(600, PlainText)>>,
     <<Element(700, BodyText), Element(650, ColonText), Element(600, TenWordText)>>,
     <<Element(700, LongText)>>,
     <<Element(300, TenWordText), Element(700, HeadingText), Element(500, <<>>),
       Element(500, NumberText)>>,
     <<Element(700, PlainText), Element(690, BodyText)>>,
     <<Element(0, BlankText)>>}

\* the pages of the calls with a client: none, two and three paragraphs
LLMPageElementLists ==
    {<<>>,
     <<Element(700, PlainText), Element(690, BodyText), Element(600, NumberText)>>,
     <<Element(700, BodyText), Element(650, ColonText), Element(600, TenWordText)>>}

\* get_pdf_pages: page k of the file has index k - 1
DocumentsOf(lists, maxPages) ==
    UNION {{[k \in 1..n |-> [index |-> k - 1, elements |-> chosen[k]]] :
                chosen \in [1..n -> lists]} : n \in 0..maxPages}

Documents == DocumentsOf(PageElementLists, MaxPages)

\* the state at the call, for the given documents and client
InitCall(documents, client) ==
    /\ pc = "start"
    /\ ChunkIdle
    /\ GroupIdle
    /\ HeadingIdle
    /\ QueryIdle
    /\ PostIdle
    /\ pages \in documents
    /\ llm_client = client
    /\ page_tables = <<>>
    /\ metadata_year = <<>>
    /\ page_pos = 0
    /\ paragraphs = <<>>
    /\ paragraph_index = 0
    /\ current_section = NoneText
    /\ next_chunk_index = 0
    /\ page_chunks = <<>>
    /\ page_text_chunks = <<>>
    /\ text_chunks = <<>>
    /\ llm_index = 0
    /\ llm_responses = <<>>
    /\ sections = <<>>
    /\ data = <<>>

\* parse_financial_report(path): llm_client is None
Init == InitCall(Documents, FALSE)

Next ==
    \/ Extract
    \/ StartPage
    \/ ProcessParagraph
    \/ EndParagraphs
    \/ PageSummary
    \/ Return

Spec == Init /\ [][Next]_vars

MaxLLMPages == 2

\* the documents of the calls with a client
LLMDocuments == DocumentsOf(LLMPageElementLists, MaxLLMPages)

\* parse_financial_report(path, llm_client=client)
InitLLM == InitCall(LLMDocuments, TRUE)

NextLLM ==
    \/ Extract
    \/ StartPage
    \/ ProcessParagraph
    \/ EndParagraphs
    \/ LLMCall
    \/ PageSummary
    \/ Return

SpecLLM == InitLLM /\ [][NextLLM]_vars

----------------------------------------------------------------------------
(* Properties of _split_into_chunks *)

\* the clamped arguments, as the chunker's contract states them
EffSize == IF chunk_size_words < 1 THEN 1 ELSE chunk_size_words

EffOverlap ==
    IF overlap_words < 0 THEN 0
    ELSE IF overlap_words > EffSize - 1 THEN EffSize - 1
    ELSE overlap_words

EffStep == IF EffSize - EffOverlap < 1 THEN 1 ELSE EffSize - EffOverlap

\* the words of the paragraph and of each chunk
ParagraphWords == Split(paragraph)

ChunkWords(i) == Split(chunks[i])

RECURSIVE HeadsThenLast(_)
\* the first EffStep words of chunks i..n-1, then the whole chunk n
HeadsThenLast(i) ==
    IF i > Len(chunks) THEN <<>>
    ELSE IF i = Len(chunks) THEN ChunkWords(i)
    ELSE SubSeq(ChunkWords(i), 1, Min(EffStep, Len(ChunkWords(i)))) \o HeadsThenLast(i + 1)

RECURSIVE AllChunkWords(_)
AllChunkWords(i) ==
    IF i > Len(chunks) THEN <<>> ELSE ChunkWords(i) \o AllChunkWords(i + 1)

\* C2: the heads of EffStep words of every chunk but the last, followed by the
\* whole last chunk, are the paragraph's word sequence; with overlap_words = 0
\* the chunks partition the word sequence (no gap, no repeated word).
C2_RoundTrip ==
    pc = "done" =>
        /\ HeadsThenLast(1) = ParagraphWords
        /\ overlap_words = 0 => AllChunkWords(1) = ParagraphWords

\* three or more overlapping chunks, the last one shorter than the window
C2_Witness ==
    /\ pc = "done"
    /\ Len(chunks) >= 3
    /\ EffOverlap >= 1
    /\ Len(ChunkWords(Len(chunks))) < EffSize

\* the words of the window that starts at the 0-based position start
WindowWords(start) ==
    SubSeq(ParagraphWords, start + 1, Min(Len(ParagraphWords), start + EffSize))

\* the number of window starts 0, step, 2 step, ... before the end of the list
StartsBeforeEnd ==
    Cardinality({k \in 0..Len(ParagraphWords) : k * EffStep < Len(ParagraphWords)})

\* the number of window starts up to the first window that reaches the end
StartsUntilEndReached ==
    Cardinality({k \in 0..Len(ParagraphWords) :
        /\ k * EffStep < Len(ParagraphWords)
        /\ k = 0 \/ (k - 1) * EffStep + EffSize < Len(ParagraphWords)})

\* C3 as stated: one chunk for every window start before the end of the word
\* list, each chunk its window's words joined by single spaces.
C3_Original ==
    pc = "done" =>
        chunks = [k \in 1..StartsBeforeEnd |-> JoinSpace(WindowWords((k - 1) * EffStep))]

\* C3 amended: one chunk for every window start up to and including the first
\* window that reaches the end of the word list (later starts get no chunk),
\* each chunk its window's words joined by single spaces; an empty paragraph
\* yields no chunks.
C3_WindowsUntilEnd ==
    pc = "done" =>
        /\ chunks = [k \in 1..StartsUntilEndReached |->
                        JoinSpace(WindowWords((k - 1) * EffStep))]
        /\ ParagraphWords = <<>> => chunks = <<>>

\* a window start before the end of the list that gets no chunk
C3_Witness ==
    /\ pc = "done"
    /\ Len(chunks) >= 2
    /\ Len(chunks) < StartsBeforeEnd

ExampleParagraph == <<"a", " ", "b", " ", "c", " ", "d", " ", "e">>

ExampleChunks ==
    << <<"a", " ", "b">>, <<"b", " ", "c">>, <<"c", " ", "d">>, <<"d", " ", "e">> >>

\* C4: for a non-empty word list every chunk but the last has exactly size
\* words, the last chunk ends at the paragraph's final word, consecutive
\* chunks share at most the effective overlap; "a b c d e" with size 2 and
\* overlap 1 yields "a b", "b c", "c d", "d e".
C4_OnlyLastShort ==
    (pc = "done" /\ ParagraphWords # <<>>) =>
        LET n == Len(chunks)
            total == Len(ParagraphWords)
            start(i) == (i - 1) * EffStep
        IN  /\ n >= 1
            /\ \A i \in 1..(n - 1) : Len(ChunkWords(i)) = EffSize
            /\ Len(ChunkWords(n)) \in 1..EffSize
            /\ ChunkWords(n) = SubSeq(ParagraphWords, total - Len(ChunkWords(n)) + 1, total)
            /\ \A i \in 1..n :
                  /\ start(i) + Len(ChunkWords(i)) <= total
                  /\ ChunkWords(i) =
                        SubSeq(ParagraphWords, start(i) + 1, start(i) + Len(ChunkWords(i)))
            /\ \A i \in 1..(n - 1) :
                  start(i) + Len(ChunkWords(i)) - start(i + 1) <= EffOverlap
            /\ (paragraph = ExampleParagraph /\ chunk_size_words = 2 /\ overlap_words = 1)
                  => chunks = ExampleChunks

\* the example's call has returned
C4_Witness ==
    /\ pc = "done"
    /\ paragraph = ExampleParagraph
    /\ chunk_size_words = 2
    /\ overlap_words = 1
    /\ Len(chunks) = 4

----------------------------------------------------------------------------
(* Properties of group_paragraphs *)

\* every reordering of a sequence
Reorderings(seq) ==
    LET n == Len(seq)
        bijections == {f \in [1..n -> 1..n] : \A i, j \in 1..n : f[i] = f[j] => i = j}
    IN  {[i \in 1..n |-> seq[f[i]]] : f \in bijections}

\* C5: group_paragraphs returns the same paragraph strings for every
\* reordering of its element list, ties in y0 included.
C5_OrderIndependent ==
    pc = "done" =>
        \A reordered \in Reorderings(elements) :
            group_paragraphs(reordered, line_break_distance) = grouped

\* the positions of the elements whose text is a non-empty string
TextBearing == {i \in 1..Len(elements) : elements[i].text \notin {NoneText, <<>>}}

\* the place of element i in the visit: behind every text-bearing element with
\* a larger y0, and behind the earlier ones with the same y0
VisitRank(i) ==
    1 + Cardinality({j \in TextBearing :
            \/ elements[j].y0 > elements[i].y0
            \/ elements[j].y0 = elements[i].y0 /\ j < i})

Visited ==
    [k \in 1..Cardinality(TextBearing) |->
        elements[CHOOSE i \in TextBearing : VisitRank(i) = k]]

\* the places in the visit where a paragraph starts
ParagraphStarts ==
    {k \in 1..Len(Visited) :
        k = 1 \/ Visited[k - 1].y0 - Visited[k].y0 > line_break_distance}

NthStart(j) ==
    CHOOSE s \in ParagraphStarts : Cardinality({t \in ParagraphStarts : t < s}) = j - 1

ParagraphEnd(s) ==
    IF \E t \in ParagraphStarts : t > s
    THEN (CHOOSE t \in ParagraphStarts :
            t > s /\ \A u \in ParagraphStarts : u > s => t <= u) - 1
    ELSE Len(Visited)

\* C6: the text-bearing elements are visited in descending y0 order; a
\* paragraph starts exactly where the y0 gap to the previous visited element
\* is strictly greater than line_break_distance; each paragraph is the texts
\* of its run of visited elements joined by single spaces; no elements give
\* no paragraph, one visited element gives one paragraph equal to its text.
C6_GapGrouping ==
    pc = "done" =>
        /\ \A k \in 2..Len(Visited) : Visited[k - 1].y0 >= Visited[k].y0
        /\ grouped =
             [j \in 1..Cardinality(ParagraphStarts) |->
                LET s == NthStart(j)
                IN  JoinSpace([k \in 1..(ParagraphEnd(s) - s + 1) |-> Visited[s + k - 1].text])]
        /\ elements = <<>> => grouped = <<>>
        /\ Len(Visited) = 1 => grouped = <<Visited[1].text>>

\* three visited elements: a gap above the threshold splits, a gap equal to
\* it does not
C6_Witness ==
    /\ pc = "done"
    /\ Len(Visited) = 3
    /\ Len(grouped) = 2
    /\ \E k \in 2..3 : Visited[k - 1].y0 - Visited[k].y0 = line_break_distance

NotEmpty(e) == ~is_empty(e)

\* C7: elements whose text is None, empty or whitespace-only are filtered out
\* before grouping: the result is that of grouping the other elements alone,
\* and a page of only such elements yields no paragraph.
C7_EmptyFiltered ==
    pc = "done" =>
        /\ grouped = group_paragraphs(SelectSeq(elements, NotEmpty), line_break_distance)
        /\ (\A i \in 1..Len(elements) : is_empty(elements[i])) => grouped = <<>>

----------------------------------------------------------------------------
(* Properties of detect_tables *)

\* C8: detect_tables never raises, whatever the element list.
C8_NeverRaises == pc # "raised"

\* the positions of the elements whose text matches the numeric pattern
MatchingElements ==
    {i \in 1..Len(elements) :
        /\ elements[i].text \notin {NoneText, <<>>}
        /\ MatchesThousands(elements[i].text)}

NthMatching(k) ==
    CHOOSE i \in MatchingElements : Cardinality({j \in MatchingElements : j < i}) = k - 1

\* C9: one table per matching element, in element order, at the y0 of that
\* same element, 15 units high, with the element's text as its only cell.
C9_OwnY0 ==
    pc = "done" =>
        tables = [k \in 1..Cardinality(MatchingElements) |->
                    LET e == elements[NthMatching(k)]
                    IN  [x0 |-> 0, y0 |-> e.y0, x1 |-> 1000, y1 |-> e.y0 + 15,
                         rows |-> <<<<e.text>>>>]]

----------------------------------------------------------------------------
(* Properties of parse_financial_report *)

\* the normalised paragraphs of page k (1-based)
PageParagraphs(k) ==
    LET paras == group_paragraphs(pages[k].elements, ReaderConfig_line_break_distance)
    IN  [q \in 1..Len(paras) |-> _normalise_whitespace(paras[q])]

\* <<page_index, paragraph_index, text>> of every window of every paragraph
\* of pages k.., page by page, paragraph by paragraph, window by window
RECURSIVE WindowsFromParagraph(_, _)
WindowsFromParagraph(k, q) ==
    IF k > Len(pages) THEN <<>>
    ELSE IF q > Len(PageParagraphs(k)) THEN WindowsFromParagraph(k + 1, 1)
    ELSE LET windows == _split_into_chunks(PageParagraphs(k)[q], CHUNK_SIZE_WORDS,
                                           CHUNK_OVERLAP_WORDS)
         IN  [w \in 1..Len(windows) |-> <<pages[k].index, q - 1, windows[w]>>]
             \o WindowsFromParagraph(k, q + 1)

\* C1: the i-th emitted chunk has chunk_index i - 1 at every point of the
\* run, the counter is the number of chunks emitted so far on every page, and
\* the returned text_chunks are the windows in page, paragraph, window order
\* numbered 0..N-1.
C1_ChunkIndexSequence ==
    /\ \A i \in 1..Len(text_chunks) : text_chunks[i].chunk_index = i - 1
    /\ pc \in {"page", "paragraph", "sections"} => next_chunk_index = Len(text_chunks)
    /\ pc = "done" =>
          LET returned == data[1].text_chunks
              expected == WindowsFromParagraph(1, 1)
          IN  /\ Len(returned) = Len(expected)
              /\ \A i \in 1..Len(returned) :
                    /\ returned[i].chunk_index = i - 1
                    /\ <<returned[i].page_index, returned[i].metadata.paragraph_index,
                         returned[i].text>> = expected[i]

\* a returned document with two windows of one paragraph on its first page
\* and a chunk on its second page
C1_Witness ==
    /\ pc = "done"
    /\ \E i, j \in 1..Len(text_chunks) :
          /\ i + 1 < j
          /\ text_chunks[i].page_index = 0
          /\ text_chunks[i + 1].page_index = 0
          /\ text_chunks[i].metadata.paragraph_index
                = text_chunks[i + 1].metadata.paragraph_index
          /\ text_chunks[j].page_index = 1

\* the paragraphs 0..q of page k (1-based) that are headings
HeadingsUpTo(k, q) ==
    {h \in 0..q : _looks_like_heading(PageParagraphs(k)[h + 1])}

LastHeadingUpTo(k, q) ==
    CHOOSE h \in HeadingsUpTo(k, q) : \A other \in HeadingsUpTo(k, q) : other <= h

\* C10: a chunk carries the most recent heading paragraph of its own page at
\* or before its paragraph; with no such heading it carries the title derived
\* from its own paragraph alone; the tracked title is None at the start of
\* every page.
C10_SectionTracking ==
    /\ (pc = "paragraph" /\ paragraph_index = 0) => current_section = NoneText
    /\ \A i \in 1..Len(text_chunks) :
          LET chunk == text_chunks[i]
              k == chunk.page_index + 1
              q == chunk.metadata.paragraph_index
          IN  IF HeadingsUpTo(k, q) # {}
              THEN chunk.metadata.section_title = PageParagraphs(k)[LastHeadingUpTo(k, q) + 1]
              ELSE chunk.metadata.section_title
                      = _derive_section_title(PageParagraphs(k)[q + 1], chunk.page_index,
                                              NoneText)

\* the first page has a chunk below a heading, the second page a chunk with
\* no heading above it
C10_Witness ==
    /\ pc = "done"
    /\ \E i, j \in 1..Len(text_chunks) :
          /\ text_chunks[i].page_index = 0
          /\ HeadingsUpTo(1, text_chunks[i].metadata.paragraph_index) # {}
          /\ LastHeadingUpTo(1, text_chunks[i].metadata.paragraph_index)
                < text_chunks[i].metadata.paragraph_index
          /\ text_chunks[j].page_index = 1
          /\ HeadingsUpTo(2, text_chunks[j].metadata.paragraph_index) = {}

----------------------------------------------------------------------------
(* _looks_like_heading on its own *)

MaxHeadingWords == 2

\* tokens: upper case, title case, lower case, an uppercase ratio of exactly
\* 0.6 and one below it, numbers, and tokens ending in "." or ":"
HeadingTokens ==
    {<<"A", "B">>,
     <<"A", "b">>,
     <<"a", "b">>,
     <<"a", "b", "C", "D", "E">>,
     <<"a", "b", "c", "D", "E">>,
     <<"7">>,
     <<"a", ".">>,
     <<"a", ":">>,
     <<"A", ".">>,
     <<"7", ".">>,
     <<"A", "b", ":">>}

HeadingWordLists ==
    UNION {[1..n -> HeadingTokens] : n \in 0..MaxHeadingWords}

\* _HEADING_MAX_WORDS - 1 or _HEADING_MAX_WORDS tokens "A" before one token:
\* paragraphs of exactly the maximum length and of one token more
PaddedWordLists ==
    {[k \in 1..n |-> <<"A">>] \o <<w>> :
        n \in {_HEADING_MAX_WORDS - 1, _HEADING_MAX_WORDS}, w \in HeadingTokens}

\* the paragraph as the parser passes it (normalised), and as any other
\* caller may pass it
HeadingRenderings(ws) ==
    {JoinSpace(ws), <<" ">> \o JoinSpace(ws) \o <<"\n">>}

HeadingInputs ==
    UNION {HeadingRenderings(ws) : ws \in HeadingWordLists \cup PaddedWordLists}

InitHeading ==
    /\ pc = "call"
    /\ ChunkIdle
    /\ GroupIdle
    /\ DocIdle
    /\ QueryIdle
    /\ PostIdle
    /\ heading_paragraph \in HeadingInputs
    /\ heading_result = FALSE

\* one call of _looks_like_heading
HeadingCall ==
    /\ pc = "call"
    /\ heading_result' = _looks_like_heading(heading_paragraph)
    /\ pc' = "done"
    /\ UNCHANGED heading_paragraph
    /\ UNCHANGED <<chunkVars, groupVars, docVars, queryVars, postVars>>

NextHeading == HeadingCall

SpecHeading == InitHeading /\ [][NextHeading]_vars

HeadingTokensOf == Split(heading_paragraph)

HeadingLastToken == HeadingTokensOf[Len(HeadingTokensOf)]

HeadingEndsIn(ch) ==
    /\ HeadingTokensOf # <<>>
    /\ HeadingLastToken[Len(HeadingLastToken)] = ch

SingleNumericToken ==
    /\ Len(HeadingTokensOf) = 1
    /\ \A i \in 1..Len(HeadingTokensOf[1]) : HeadingTokensOf[1][i] \in DigitChars

HeadingAlphaCount ==
    Cardinality({i \in 1..Len(heading_paragraph) :
                    heading_paragraph[i] \in UpperChars \cup LowerChars})

HeadingUpperCount ==
    Cardinality({i \in 1..Len(heading_paragraph) : heading_paragraph[i] \in UpperChars})

UpperRatioReached ==
    /\ HeadingAlphaCount > 0
    /\ 10 * HeadingUpperCount >= 6 * HeadingAlphaCount

EveryTokenCapitalised ==
    \A i \in 1..Len(HeadingTokensOf) : HeadingTokensOf[i][1] \in UpperChars

HeadingCue ==
    HeadingEndsIn(":") \/ UpperRatioReached \/ EveryTokenCapitalised

\* C11 as stated: the result is true exactly when the paragraph is a single
\* numeric token, or has at most 12 tokens, does not end in "." and ends in
\* ":", has an uppercase ratio of at least 0.6 or has every token capitalised.
C11_Original ==
    pc = "done" =>
        heading_result =
            (\/ SingleNumericToken
             \/ /\ Len(HeadingTokensOf) <= 12
                /\ ~HeadingEndsIn(".")
                /\ HeadingCue)

\* C11: a paragraph is a heading exactly when it is a single numeric token,
\* or has at least one and at most 12 tokens, does not end in "." and ends in
\* ":", has an uppercase ratio of at least 0.6 or has every token
\* capitalised; a paragraph without tokens, one of more than 12 tokens, and
\* one ending in "." that is not a single numeric token are never headings.
C11_HeadingRule ==
    pc = "done" =>
        /\ heading_result =
              (\/ SingleNumericToken
               \/ /\ HeadingTokensOf # <<>>
                  /\ Len(HeadingTokensOf) <= 12
                  /\ ~HeadingEndsIn(".")
                  /\ HeadingCue)
        /\ HeadingTokensOf = <<>> => ~heading_result
        /\ Len(HeadingTokensOf) > 12 => ~heading_result
        /\ (HeadingEndsIn(".") /\ ~SingleNumericToken) => ~heading_result

\* a heading by its uppercase ratio alone, the ratio being exactly 0.6
C11_Witness ==
    /\ pc = "done"
    /\ heading_result
    /\ ~HeadingEndsIn(":")
    /\ ~EveryTokenCapitalised
    /\ 10 * HeadingUpperCount = 6 * HeadingAlphaCount

----------------------------------------------------------------------------
(* query.py: the keyword index and retrieve *)

_STOPWORDS ==
    {<<"a">>, <<"a", "n">>, <<"a", "n", "d">>, <<"a", "r", "e">>,
     <<"a", "s">>, <<"a", "t">>, <<"b", "e">>, <<"b", "u", "t">>,
     <<"b", "y">>, <<"f", "o", "r">>, <<"f", "r", "o", "m">>, <<"h", "a", "s">>,
     <<"h", "a", "v", "e">>, <<"i", "n">>, <<"i", "s">>, <<"i", "t">>,
     <<"o", "f">>, <<"o", "n">>, <<"o", "r">>, <<"t", "h", "a", "t">>,
     <<"t", "h", "e">>, <<"t", "o">>, <<"w", "a", "s">>, <<"w", "e", "r", "e">>,
     <<"w", "i", "l", "l">>, <<"w", "i", "t", "h">>}

\* re.findall(r"\b\w+\b", text): the maximal runs of word characters, in order
WordRuns(text) ==
    LET starts == SelectSeq(Indices(text), LAMBDA i :
                      IsWord(text[i]) /\ (i = 1 \/ ~IsWord(text[i - 1])))
        ends == SelectSeq(Indices(text), LAMBDA i :
                      IsWord(text[i]) /\ (i = Len(text) \/ ~IsWord(text[i + 1])))
    IN  [k \in 1..Len(starts) |-> SubSeq(text, starts[k], ends[k])]

_normalise_tokens(text) ==
    SelectSeq(WordRuns(ToLower(text)), LAMBDA token : token \notin _STOPWORDS)

\* set(list)
SetOf(list) == {list[i] : i \in 1..Len(list)}

\* TextChunk of the constructor's sequence: its position and its text
TextChunk(chunk_index, text) == [chunk_index |-> chunk_index, text |-> text]

\* lines 92-94: token_sets
BuildTokenSets(chunk_list) ==
    [i \in 1..Len(chunk_list) |-> SetOf(_normalise_tokens(chunk_list[i].text))]

\* line 95: doc_freq[token], the number of chunks whose token set holds token
DocFreq(token_sets, token) ==
    Cardinality({i \in 1..Len(token_sets) : token \in token_sets[i]})

\* math.log(n) in millionths, rounded, for the integers the index can meet;
\* the logarithm of a quotient is the difference of two entries
LogMillionths(n) ==
    <<0, 693147, 1098612, 1386294, 1609438, 1791759, 1945910, 2079441>>[n]

\* 1.0 in millionths
One == 1000000

\* line 100: math.log((1 + total_docs) / (1 + freq)) + 1.0
IdfValue(total_docs, freq) ==
    LogMillionths(1 + total_docs) - LogMillionths(1 + freq) + One

\* lines 97-100: idf
BuildIdf(chunk_list, token_sets) ==
    LET total_docs == Max(1, Len(chunk_list))
        tokens == UNION {token_sets[i] : i \in 1..Len(token_sets)}
    IN  [token \in tokens |-> IdfValue(total_docs, DocFreq(token_sets, token))]

\* self._idf.get(token, 1.0)
IdfGet(idf, token) == IF token \in DOMAIN idf THEN idf[token] ELSE One

RECURSIVE SumIdf(_, _)
\* sum(self._idf.get(token, 1.0) for token in overlap)
SumIdf(idf, overlap) ==
    IF overlap = {} THEN 0
    ELSE LET token == CHOOSE t \in overlap : TRUE
         IN  IdfGet(idf, token) + SumIdf(idf, overlap \ {token})

\* ChunkMatch(chunk=chunk, score=score)
ChunkMatch(chunk, score) == [chunk |-> chunk, score |-> score]

RECURSIVE ScoreLoop(_, _, _, _, _)
\* lines 113-119: the matches of the chunks from position i on, appended to scored
ScoreLoop(chunk_list, token_sets, idf, query_tokens, i) ==
    IF i > Min(Len(chunk_list), Len(token_sets)) THEN <<>>
    ELSE LET overlap == token_sets[i] \cap query_tokens
             rest == ScoreLoop(chunk_list, token_sets, idf, query_tokens, i + 1)
         IN  IF overlap = {} THEN rest
             ELSE <<ChunkMatch(chunk_list[i], SumIdf(idf, overlap))>> \o rest

\* the place of match in a list sorted by descending score: behind the
\* entries whose score is not lower
InsertByScore(sorted, match) ==
    LET before == SelectSeq(sorted, LAMBDA other : other.score >= match.score)
        after == SelectSeq(sorted, LAMBDA other : other.score < match.score)
    IN  before \o <<match>> \o after

RECURSIVE SortByScoreDesc(_)
\* list.sort(key=lambda match: match.score, reverse=True): stable
SortByScoreDesc(scored) ==
    IF scored = <<>> THEN <<>>
    ELSE InsertByScore(SortByScoreDesc(SubSeq(scored, 1, Len(scored) - 1)),
                       scored[Len(scored)])

\* list[:k]: the first k entries, and for k < 0 all but the last -k
SliceTo(list, k) ==
    IF k >= 0 THEN SubSeq(list, 1, Min(k, Len(list)))
    ELSE SubSeq(list, 1, Max(0, Len(list) + k))

retrieve(chunk_list, token_sets, idf, q, k) ==
    LET query_tokens == SetOf(_normalise_tokens(q))
    IN  IF query_tokens = {} THEN <<>>
        ELSE SliceTo(SortByScoreDesc(ScoreLoop(chunk_list, token_sets, idf, query_tokens, 1)), k)

\* tokens &= query_tokens would shrink the indexed token sets in place
IntersectedInPlace(token_sets, query_tokens) ==
    [i \in 1..Len(token_sets) |-> token_sets[i] \cap query_tokens]

\* line 115: tokens & query_tokens builds a new set, the indexed token sets
\* stay as they are
TokenSetsAfterOverlap(token_sets, query_tokens) == token_sets

MaxChunks == 2

MaxCalls == 2

ChunkTexts ==
    {<<"T", "o", "t", "a", "l", " ", "a", "s", "s", "e", "t", "s", " ", "a", "n", "d", " ", "l", "i", "a", "b", "i", "l", "i", "t", "i", "e", "s", " ", "r", "o", "s", "e">>,
     <<"P", "r", "o", "f", "i", "t", " ", "r", "o", "s", "e">>,
     <<"a", "s", "s", "e", "t", "s", " ", "a", "s", "s", "e", "t", "s">>,
     <<"t", "h", "e", " ", "a", "n", "d", " ", "o", "f">>}

Questions ==
    {<<"a", "s", "s", "e", "t", "s", " ", "l", "i", "a", "b", "i", "l", "i", "t", "i", "e", "s">>,
     <<"t", "h", "e", " ", "a", "n", "d", " ", "o", "f">>,
     <<"R", "o", "s", "e", " ", "p", "r", "o", "f", "i", "t", "?">>}

\* top_k: negative, zero, smaller than the number of chunks, and the default
TopKValues == {0 - 1, 0, 1, 3}

ChunkLists ==
    UNION {[1..n -> ChunkTexts] : n \in 0..MaxChunks}

\* TextQueryEngine(chunks): the state after __init__ has run _build_index
InitQuery ==
    /\ pc = "ready"
    /\ ChunkIdle
    /\ GroupIdle
    /\ DocIdle
    /\ HeadingIdle
    /\ PostIdle
    /\ \E texts \in ChunkLists :
          engine_chunks = [i \in 1..Len(texts) |-> TextChunk(i - 1, texts[i])]
    /\ _token_sets = BuildTokenSets(engine_chunks)
    /\ _idf = BuildIdf(engine_chunks, _token_sets)
    /\ question = <<>>
    /\ top_k = 0
    /\ matches = <<>>
    /\ history = <<>>

\* one call of retrieve
Retrieve ==
    /\ pc = "ready"
    /\ Len(history) < MaxCalls
    /\ \E q \in Questions, k \in TopKValues :
          /\ question' = q
          /\ top_k' = k
          /\ matches' = retrieve(engine_chunks, _token_sets, _idf, q, k)
          /\ _token_sets' = TokenSetsAfterOverlap(_token_sets, SetOf(_normalise_tokens(q)))
    /\ history' = Append(history, [question |-> question', top_k |-> top_k',
                                   matches |-> matches'])
    /\ UNCHANGED <<pc, engine_chunks, _idf>>
    /\ UNCHANGED <<chunkVars, groupVars, docVars, headingVars, postVars>>

NextQuery == Retrieve

SpecQuery == InitQuery /\ [][NextQuery]_vars

\* the query's tokens that are no stopwords
QueryTokens == SetOf(_normalise_tokens(question))

\* the tokens a chunk shares with the query
SharedTokens(chunk) == SetOf(_normalise_tokens(chunk.text)) \cap QueryTokens

RECURSIVE IdfSum(_)
IdfSum(tokens) ==
    IF tokens = {} THEN 0
    ELSE LET token == CHOOSE t \in tokens : TRUE
         IN  _idf[token] + IdfSum(tokens \ {token})

ScoredByIdf ==
    \A i \in 1..Len(matches) :
        /\ \E j \in 1..Len(engine_chunks) : matches[i].chunk = engine_chunks[j]
        /\ SharedTokens(matches[i].chunk) # {}
        /\ matches[i].score = IdfSum(SharedTokens(matches[i].chunk))

OrderedByScore ==
    \A i \in 1..(Len(matches) - 1) :
        \/ matches[i].score > matches[i + 1].score
        \/ /\ matches[i].score = matches[i + 1].score
           /\ matches[i].chunk.chunk_index < matches[i + 1].chunk.chunk_index

\* C12: retrieve returns only chunks whose token set meets the query's
\* non-stopword tokens, each scored by the sum of idf over the shared tokens,
\* in non-increasing score order with ties in chunk order, at most top_k of
\* them for every top_k (so none for a top_k below one), and none when the
\* query has no token left.
C12_Retrieve ==
    history # <<>> =>
        /\ ScoredByIdf
        /\ OrderedByScore
        /\ Len(matches) <= Max(top_k, 0)
        /\ QueryTokens = {} => matches = <<>>

\* the same for a top_k that is not negative, where the list is the first
\* top_k of all chunks that share a token with the query
RetrieveForCounts ==
    (history # <<>> /\ top_k >= 0) =>
        /\ ScoredByIdf
        /\ OrderedByScore
        /\ Len(matches) <= top_k
        /\ QueryTokens = {} => matches = <<>>
        /\ Len(matches) =
              Min(top_k, Cardinality({j \in 1..Len(engine_chunks) :
                                         SharedTokens(engine_chunks[j]) # {}}))

\* C14: a retrieve call leaves the chunks, the token sets and the idf table
\* as they were, and any two calls with the same question and top_k, however
\* many calls lie between them, return the same matches with the same scores.
C14_ReadOnlyIdempotent ==
    [][/\ engine_chunks' = engine_chunks
       /\ _token_sets' = _token_sets
       /\ _idf' = _idf
       /\ \A i, j \in 1..Len(history') :
             (/\ history'[i].question = history'[j].question
              /\ history'[i].top_k = history'[j].top_k)
             => history'[i].matches = history'[j].matches]_vars

\* the same query asked again after a different one, each with matches
C14_Witness ==
    /\ Len(history) = 2
    /\ history[1].question = history[2].question
    /\ history[1].top_k = history[2].top_k
    /\ Len(history[2].matches) = 2
    /\ history[2].matches[1].chunk.chunk_index > history[2].matches[2].chunk.chunk_index

----------------------------------------------------------------------------
(* parse_financial_report with a client whose calls may fail *)

\* the paragraphs of page k as the language-model loop sees them
RawParagraphs(k) ==
    group_paragraphs(pages[k].elements, ReaderConfig_line_break_distance)

\* the chunks of the paragraphs from paragraph q of page k on, as the
\* document alone determines them
RECURSIVE ChunksOfDocument(_, _, _, _)
ChunksOfDocument(k, q, section, next) ==
    IF k > Len(pages) THEN <<>>
    ELSE IF q > Len(RawParagraphs(k)) THEN ChunksOfDocument(k + 1, 1, NoneText, next)
    ELSE LET text == _normalise_whitespace(RawParagraphs(k)[q])
             tracked == SectionAfter(text, section)
             new == ParagraphChunks(pages[k].index, q - 1, text, tracked, next)
         IN  new \o ChunksOfDocument(k, q + 1, tracked, next + Len(new))

\* the sections of the document alone
SectionsOfDocument ==
    Flatten([k \in 1..Len(pages) |-> PageSections(RawParagraphs(k))])

\* <<page_index, chunk_index, prompt>> of the calls, page by page, paragraph
\* by paragraph
CallsOfDocument ==
    Flatten([k \in 1..Len(pages) |->
                [q \in 1..Len(RawParagraphs(k)) |->
                    <<pages[k].index, q - 1, RawParagraphs(k)[q]>>]])

\* C13: with a client, whichever calls fail, the run never aborts; the
\* returned llm_responses hold one entry per paragraph in page, paragraph
\* order, a failed call as its error payload; text_chunks and sections are
\* those the document alone determines, as when every call succeeds.
C13_FailuresRecorded ==
    /\ pc # "raised"
    /\ pc = "done" =>
          LET returned == data[1].llm_responses[1]
              expected == CallsOfDocument
              wanted == ChunksOfDocument(1, 1, NoneText, 0)
          IN  /\ Len(returned) = Len(expected)
              /\ \A i \in 1..Len(returned) :
                    /\ <<returned[i].page_index, returned[i].chunk_index,
                         returned[i].prompt>> = expected[i]
                    /\ returned[i].response \in {CompletionPayload, ErrorPayload}
              /\ data[1].text_chunks = [i \in 1..Len(wanted) |-> to_dict(wanted[i])]
              /\ data[1].sections = SectionsOfDocument

\* a returned two-page document with a failed call before a successful one,
\* with chunks and a summary section
C13_Witness ==
    /\ pc = "done"
    /\ llm_client
    /\ Len(pages) = 2
    /\ data[1].sections # <<>>
    /\ Len(data[1].text_chunks) >= 2
    /\ \E i, j \in 1..Len(data[1].llm_responses[1]) :
          /\ i < j
          /\ data[1].llm_responses[1][i].response = ErrorPayload
          /\ data[1].llm_responses[1][j].response = CompletionPayload

----------------------------------------------------------------------------
(* llm_client.py: LLMClient._post *)

MaxRetriesArg == 4

\* max_retries as passed to the constructor; the default is 3
RetryArgs == (0 - 1)..MaxRetriesArg

\* backoff_factor as passed to the constructor, in units of time
BackoffArgs == {0 - 1, 0, 1, 2}

\* session.post, raise_for_status and json: a payload, a RequestException,
\* or an exception of another kind
PostOutcomes == {"payload", "RequestException", "other exception"}

\* a retry test that lets one more attempt through
NotYetBeyond(at, retries) == at > retries

\* line 106: if attempt >= self.max_retries: raise
RetriesExhausted(at, retries) == at >= retries

\* line 116: self.backoff_factor * (2 ** (attempt - 1))
Delay(factor, at) == factor * (2 ^ (at - 1))

\* the client after __init__ (lines 37-38), at the call of _post
InitPost ==
    /\ pc = "attempt"
    /\ ChunkIdle
    /\ GroupIdle
    /\ DocIdle
    /\ HeadingIdle
    /\ QueryIdle
    /\ max_retries_arg \in RetryArgs
    /\ max_retries = Max(1, max_retries_arg)
    /\ \E factor \in BackoffArgs : backoff_factor = Max(0, factor)
    /\ attempt = 1
    /\ outcomes = <<>>
    /\ sleeps = <<>>
    /\ post_result = <<>>

\* lines 95-104: the loop takes the next attempt, or is over; the attempt
\* returns the payload or raises
Attempt ==
    /\ pc = "attempt"
    /\ IF attempt > max_retries
       THEN /\ pc' = "RuntimeError"
            /\ post_result' = <<"LLM request retry loop exited unexpectedly">>
            /\ UNCHANGED outcomes
       ELSE \E outcome \in PostOutcomes :
               /\ outcomes' = Append(outcomes, outcome)
               /\ pc' = CASE outcome = "payload" -> "returned"
                          [] outcome = "RequestException" -> "except"
                          [] OTHER -> "raised"
               /\ post_result' = IF outcome = "RequestException" THEN <<>>
                                 ELSE <<[attempt |-> attempt, outcome |-> outcome]>>
    /\ UNCHANGED <<max_retries_arg, max_retries, backoff_factor, attempt, sleeps>>
    /\ UNCHANGED <<chunkVars, groupVars, docVars, headingVars, queryVars>>

\* lines 105-107: the handler re-raises after the last attempt
Except ==
    /\ pc = "except"
    /\ IF RetriesExhausted(attempt, max_retries)
       THEN /\ pc' = "raised"
            /\ post_result' = <<[attempt |-> attempt, outcome |-> "RequestException"]>>
       ELSE /\ pc' = "sleep"
            /\ UNCHANGED post_result
    /\ UNCHANGED <<max_retries_arg, max_retries, backoff_factor, attempt, outcomes, sleeps>>
    /\ UNCHANGED <<chunkVars, groupVars, docVars, headingVars, queryVars>>

\* lines 108, 113-117: _sleep(attempt), then the next attempt
Sleep ==
    /\ pc = "sleep"
    /\ sleeps' = IF backoff_factor <= 0 THEN sleeps
                 ELSE Append(sleeps, Delay(backoff_factor, attempt))
    /\ attempt' = attempt + 1
    /\ pc' = "attempt"
    /\ UNCHANGED <<max_retries_arg, max_retries, backoff_factor, outcomes, post_result>>
    /\ UNCHANGED <<chunkVars, groupVars, docVars, headingVars, queryVars>>

NextPost ==
    \/ Attempt
    \/ Except
    \/ Sleep

\* the call runs on until it returns or raises
SpecPost == InitPost /\ [][NextPost]_vars /\ WF_vars(NextPost)

\* n = max(1, max_retries)
AttemptLimit == IF max_retries_arg >= 1 THEN max_retries_arg ELSE 1

PostTerminated == pc \in {"returned", "raised", "RuntimeError"}

AllRequestFailures(n) == \A i \in 1..n : outcomes[i] = "RequestException"

RequestFailureRaised ==
    /\ pc = "raised"
    /\ post_result = <<[attempt |-> Len(outcomes), outcome |-> "RequestException"]>>

PostSafety ==
    /\ Len(outcomes) <= AttemptLimit
    /\ AllRequestFailures(Len(outcomes) - 1)
    /\ pc = "returned" =>
          /\ outcomes[Len(outcomes)] = "payload"
          /\ post_result = <<[attempt |-> Len(outcomes), outcome |-> "payload"]>>
    /\ Len(sleeps) = IF backoff_factor > 0 THEN attempt - 1 ELSE 0
    /\ \A i \in 1..Len(sleeps) :
          /\ sleeps[i] = backoff_factor * (2 ^ (i - 1))
          /\ outcomes[i] = "RequestException"
          /\ i < Len(outcomes) \/ pc = "attempt"
    /\ RequestFailureRaised =>
          (Len(outcomes) = AttemptLimit /\ AllRequestFailures(AttemptLimit))
    /\ (/\ PostTerminated
        /\ Len(outcomes) = AttemptLimit
        /\ AllRequestFailures(AttemptLimit)) => RequestFailureRaised
    /\ pc # "RuntimeError"

\* C15: with n = max(1, max_retries), _post makes at most n attempts, makes
\* none after a successful one and returns its payload, sleeps
\* backoff_factor * 2^(attempt-1) only after a failed attempt that is followed
\* by another, raises the request failure exactly when all n attempts failed,
\* never reaches the trailing RuntimeError, and always terminates.
C15_BoundedRetries == []PostSafety /\ <>PostTerminated

\* a payload returned by the third attempt, after two backoffs
C15_Witness ==
    /\ pc = "returned"
    /\ Len(outcomes) = 3
    /\ max_retries > 3
    /\ sleeps = <<2, 4>>

====
